---- MODULE Spec2Model ----
(***************************************************************************)
(* A model of package chord (src/chord.go, lines 119-283, the version     *)
(* with Match; lines 1-118 and 285-375 are earlier versions of the file): *)
(* a Chord holds two sync.Maps (threads, chords) and a plain slice of     *)
(* middlewares. Callers are processes; every access to shared memory is   *)
(* one step, and a sync.Map Load, Store or Delete is one atomic access.   *)
(*                                                                         *)
(* A Thread is modelled by what running it does: the sequence of the      *)
(* wrappers around it, outermost first, ending with its base handler.     *)
(***************************************************************************)
EXTENDS Naturals, Sequences, FiniteSets, TLC

\* ---------------------------------------------------------------- bounds
\* Longest middleware slice a node may be asked to hold.
MaxMw == 3
\* Longest wrapper list passed to one Register or WrapThreads call.
MaxTw == 2
\* Longest path passed to Match.
MaxPath == 3

\* ---------------------------------------------------------------- values
\* sync.Map.Load reporting ok = false for threads / for chords.
Absent == <<>>
NoChord == "absent"
\* The nil Thread, the nil *Chord and the nil ThreadWrapper (zero values).
NilThread == <<"nil">>
NilChord == "nil"
NilWrapper == "nil"
\* What a Thread becomes when building it panicked.
Panicked == <<"panic">>

AllChords == {"n0", "n1"}
AllKeys == {"c", "h"}
AllProcs == {"p1", "p2"}
Wrappers == {"a", "b"}
BaseThreads == {<<"H">>, <<"G">>}

SeqsUpTo(S, n) == UNION {[1..m -> S] : m \in 0..n}
NonEmptySeqsUpTo(S, n) == SeqsUpTo(S, n) \ {<<>>}
Last(s) == s[Len(s)]
Front(s) == SubSeq(s, 1, Len(s) - 1)

\* --------------------------------------------------- threads and wrappers
\* tw[i](thread): the wrapper's closure around thread. Calling the nil
\* wrapper panics.
Apply(w, thread) ==
  IF w = NilWrapper \/ thread = Panicked THEN Panicked ELSE <<w>> \o thread

\* The loop of WrapThreads: for i := len(tw) - 1; i > 0; i-- (0-based), which
\* is i from Len(tw) down to 2 here (1-based): tw[0] is never applied.
RECURSIVE WrapLoop(_, _, _)
WrapLoop(thread, tw, i) ==
  IF i > 1 THEN WrapLoop(Apply(tw[i], thread), tw, i - 1) ELSE thread

\* A WrapThreads that returns nil when it is given no wrapper.
WrapThreadsNoEmpty(thread, tw) ==
  IF tw = <<>> THEN NilThread ELSE WrapLoop(thread, tw, Len(tw))

WrapThreads(thread, tw) == WrapLoop(thread, tw, Len(tw))

\* Running a thread built from logging middleware (README: a wrapper logs,
\* calls next, logs again) appends to a shared log. Calling the nil Thread
\* panics, and nothing after the panic runs.
Pre(w) == w
Post(w) == CASE w = "a" -> "A" [] w = "b" -> "B" [] OTHER -> "?"
BaseLog(b) == CASE b = "H" -> "h" [] b = "G" -> "g" [] OTHER -> "panic"

RECURSIVE Invoke(_)
Invoke(thread) ==
  IF Len(thread) = 1 THEN <<BaseLog(thread[1])>>
  ELSE LET inner == Invoke(Tail(thread))
       IN IF Last(inner) = "panic" THEN <<Pre(thread[1])>> \o inner
          ELSE <<Pre(thread[1])>> \o inner \o <<Post(thread[1])>>

\* ----------------------------------------------------------------- state
VARIABLES
  threads,      \* Chord.threads: per node, key -> Thread or Absent
  chords,       \* Chord.chords: per node, key -> node, NilChord or NoChord
  middlewares,  \* Chord.middlewares: per node, the slice
  pc,           \* per caller: where it is in its call
  op,           \* per caller: its current (or last) call and arguments
  stack,        \* per caller: the frames of Match's recursion
  loc,          \* per caller: locals of the call in progress
  ret,          \* per caller: what its last call returned
  hist,         \* history: per node and key, the last Register's arguments
  useLog,       \* history: per node, the wrappers Use appended, in store order
  seen          \* history: per Match in progress, the values its key held

vars == <<threads, chords, middlewares, pc, op, stack, loc, ret, hist, useLog, seen>>

NoOp == [name |-> "none", c |-> NilChord, key |-> "", thread |-> NilThread,
         tw |-> <<>>, child |-> NilChord, path |-> <<>>, was |-> Absent,
         prev |-> <<>>]
\* array names the backing array of the slice in md: "new" for one the call
\* allocated, a node for the array of that node's middlewares.
NoRet == [thread |-> NilThread, ok |-> FALSE, chord |-> NilChord, md |-> <<>>,
          array |-> "none"]
NoLoc == [thread |-> NilThread, n |-> 0, md |-> <<>>, visited |-> <<>>]

\* A zero-value Chord: empty maps, nil slice. Every caller is idle.
Init ==
  /\ threads = [c \in AllChords |-> [k \in AllKeys |-> Absent]]
  /\ chords = [c \in AllChords |-> [k \in AllKeys |-> NoChord]]
  /\ middlewares = [c \in AllChords |-> <<>>]
  /\ pc = [p \in AllProcs |-> "idle"]
  /\ op = [p \in AllProcs |-> NoOp]
  /\ stack = [p \in AllProcs |-> <<>>]
  /\ loc = [p \in AllProcs |-> NoLoc]
  /\ ret = [p \in AllProcs |-> NoRet]
  /\ hist = [c \in AllChords |-> [k \in AllKeys |-> <<>>]]
  /\ useLog = [c \in AllChords |-> <<>>]
  /\ seen = [p \in AllProcs |-> {}]

\* A caller starts a call: its previous call's record is dropped.
Begin(p, o, r) ==
  /\ op' = [op EXCEPT ![p] = o]
  /\ ret' = [ret EXCEPT ![p] = r]

InMatch(q) == pc[q] \in {"Match", "Match_len", "Match_copy"}

\* History: the Matches in progress on the single key `key` of node c see v.
Observe(p, c, key, v) ==
  seen' = [q \in AllProcs |->
             IF q = p THEN {}
             ELSE IF InMatch(q) /\ op[q].c = c /\ op[q].path = <<key>>
                  THEN seen[q] \cup {v} ELSE seen[q]]

\* History kept in a lookup's record: the caller's preceding call when that
\* was a write to the same key of the same node (its name, its thread
\* argument, what the key held before it).
PrevWrite(p, c, key) ==
  IF op[p].name \in {"Register", "Unregister"} /\ op[p].c = c /\ op[p].key = key
  THEN <<op[p].name, op[p].thread, op[p].was>> ELSE <<>>

\* ------------------------------------------------------ sync.Map accesses
\* A thread lookup that falls back to another key of the node.
LoadThreadAnyKey(c, key) ==
  IF threads[c][key] # Absent \/ \A k \in AllKeys : threads[c][k] = Absent
  THEN threads[c][key]
  ELSE threads[c][CHOOSE k \in AllKeys : threads[c][k] # Absent]

\* A child lookup in a namespace shared with the handlers: a key bound to a
\* handler only resolves to the node itself.
LoadChordShared(c, key) ==
  IF chords[c][key] = NoChord /\ threads[c][key] # Absent THEN c
  ELSE chords[c][key]

LoadThread(c, key) == threads[c][key]
LoadChord(c, key) == chords[c][key]

\* ---------------------------------------------------------- the methods
\* Register as a LoadOrStore: a key already bound keeps its thread.
RegisterIfAbsent(p, c, key, thread, tw) ==
  /\ pc[p] = "idle"
  /\ threads' = [threads EXCEPT ![c][key] =
                   IF @ = Absent THEN WrapThreads(thread, tw) ELSE @]
  /\ hist' = [hist EXCEPT ![c][key] = <<thread, tw>>]
  /\ Begin(p, [NoOp EXCEPT !.name = "Register", !.c = c, !.key = key,
                           !.thread = thread, !.tw = tw,
                           !.was = threads[c][key]], NoRet)
  /\ seen' = [seen EXCEPT ![p] = {}]
  /\ UNCHANGED <<chords, middlewares, pc, stack, loc, useLog>>

\* Unregister checking identity: only the thread passed is removed.
UnregisterIfSame(p, c, key, thread) ==
  /\ pc[p] = "idle"
  /\ threads' = [threads EXCEPT ![c][key] = IF @ = thread THEN Absent ELSE @]
  /\ hist' = [hist EXCEPT ![c][key] = <<>>]
  /\ Begin(p, [NoOp EXCEPT !.name = "Unregister", !.c = c, !.key = key,
                           !.thread = thread, !.was = threads[c][key]], NoRet)
  /\ seen' = [seen EXCEPT ![p] = {}]
  /\ UNCHANGED <<chords, middlewares, pc, stack, loc, useLog>>

\* Chord.Register: compose locally, then one Store.
Register(p, c, key, thread, tw) ==
  /\ pc[p] = "idle"
  /\ threads' = [threads EXCEPT ![c][key] = WrapThreads(thread, tw)]
  /\ hist' = [hist EXCEPT ![c][key] = <<thread, tw>>]
  /\ Begin(p, [NoOp EXCEPT !.name = "Register", !.c = c, !.key = key,
                           !.thread = thread, !.tw = tw,
                           !.was = threads[c][key]], NoRet)
  /\ Observe(p, c, key, WrapThreads(thread, tw))
  /\ UNCHANGED <<chords, middlewares, pc, stack, loc, useLog>>

\* Chord.Unregister: one Delete; the thread argument is not read.
Unregister(p, c, key, thread) ==
  /\ pc[p] = "idle"
  /\ threads' = [threads EXCEPT ![c][key] = Absent]
  /\ hist' = [hist EXCEPT ![c][key] = <<>>]
  /\ Begin(p, [NoOp EXCEPT !.name = "Unregister", !.c = c, !.key = key,
                           !.thread = thread, !.was = threads[c][key]], NoRet)
  /\ Observe(p, c, key, Absent)
  /\ UNCHANGED <<chords, middlewares, pc, stack, loc, useLog>>

\* A Mount that stores a copy of the child: the key holds a node of its
\* own, made at the call, and not the node it was given.
MountCopy(p, c, key, child) ==
  /\ pc[p] = "idle"
  /\ chords' = [chords EXCEPT ![c][key] = "copy"]
  /\ Begin(p, [NoOp EXCEPT !.name = "Mount", !.c = c, !.key = key,
                           !.child = child], NoRet)
  /\ seen' = [seen EXCEPT ![p] = {}]
  /\ UNCHANGED <<threads, middlewares, pc, stack, loc, hist, useLog>>

\* Chord.Mount: one Store of the pointer.
Mount(p, c, key, child) ==
  /\ pc[p] = "idle"
  /\ chords' = [chords EXCEPT ![c][key] = child]
  /\ Begin(p, [NoOp EXCEPT !.name = "Mount", !.c = c, !.key = key,
                           !.child = child], NoRet)
  /\ seen' = [seen EXCEPT ![p] = {}]
  /\ UNCHANGED <<threads, middlewares, pc, stack, loc, hist, useLog>>

\* An Unmount that removes the key on every node.
UnmountEverywhere(p, c, key) ==
  /\ pc[p] = "idle"
  /\ chords' = [n \in AllChords |-> [chords[n] EXCEPT ![key] = NoChord]]
  /\ Begin(p, [NoOp EXCEPT !.name = "Unmount", !.c = c, !.key = key], NoRet)
  /\ seen' = [seen EXCEPT ![p] = {}]
  /\ UNCHANGED <<threads, middlewares, pc, stack, loc, hist, useLog>>

\* Chord.Unmount: one Delete.
Unmount(p, c, key) ==
  /\ pc[p] = "idle"
  /\ chords' = [chords EXCEPT ![c][key] = NoChord]
  /\ Begin(p, [NoOp EXCEPT !.name = "Unmount", !.c = c, !.key = key], NoRet)
  /\ seen' = [seen EXCEPT ![p] = {}]
  /\ UNCHANGED <<threads, middlewares, pc, stack, loc, hist, useLog>>

\* The number of wrappers the Use calls in progress on c are about to append.
RECURSIVE PendingUse(_, _)
PendingUse(c, procs) ==
  IF procs = {} THEN 0
  ELSE LET q == CHOOSE x \in procs : TRUE
       IN (IF pc[q] = "Use_store" /\ op[q].c = c THEN Len(op[q].tw) ELSE 0)
            + PendingUse(c, procs \ {q})

\* Chord.Use, first half: read c.middlewares (no lock is held). The calls
\* made on a node pass at most MaxMw wrappers in all.
UseLoad(p, c, tw) ==
  /\ pc[p] = "idle"
  /\ Len(useLog[c]) + PendingUse(c, AllProcs) + Len(tw) <= MaxMw
  /\ pc' = [pc EXCEPT ![p] = "Use_store"]
  /\ loc' = [loc EXCEPT ![p] = [NoLoc EXCEPT !.md = middlewares[c]]]
  /\ Begin(p, [NoOp EXCEPT !.name = "Use", !.c = c, !.tw = tw], NoRet)
  /\ seen' = [seen EXCEPT ![p] = {}]
  /\ UNCHANGED <<threads, chords, middlewares, stack, hist, useLog>>

\* A Use whose handlers are composed when they are invoked instead of when
\* Match builds them: the store also reaches every handler a caller holds
\* that was resolved through the node.
UseStoreLive(p) ==
  /\ pc[p] = "Use_store"
  /\ middlewares' = [middlewares EXCEPT ![op[p].c] = loc[p].md \o op[p].tw]
  /\ useLog' = [useLog EXCEPT ![op[p].c] = @ \o op[p].tw]
  /\ pc' = [pc EXCEPT ![p] = "idle"]
  /\ loc' = [loc EXCEPT ![p] = NoLoc]
  /\ ret' = [q \in AllProcs |->
               IF /\ q # p /\ pc[q] = "idle" /\ op[q].name = "Match"
                  /\ ret[q].ok
               THEN [ret[q] EXCEPT !.thread = op[p].tw \o @]
               ELSE ret[q]]
  /\ UNCHANGED <<threads, chords, op, stack, hist, seen>>

\* A Use that puts the new wrappers in front of the ones the node holds.
UseStorePrepend(p) ==
  /\ pc[p] = "Use_store"
  /\ middlewares' = [middlewares EXCEPT ![op[p].c] = op[p].tw \o loc[p].md]
  /\ useLog' = [useLog EXCEPT ![op[p].c] = @ \o op[p].tw]
  /\ pc' = [pc EXCEPT ![p] = "idle"]
  /\ loc' = [loc EXCEPT ![p] = NoLoc]
  /\ UNCHANGED <<threads, chords, op, stack, ret, hist, seen>>

\* Chord.Use, second half: write append(what was read, tw...) back. A slice
\* grown by append from nil has len = cap up to two elements, and a slice of
\* three is not appended to within MaxMw <= 3: every append here allocates a
\* new array, so the slice is modelled by its value. The read and the write
\* of the slice header are each taken as one access.
UseStore(p) ==
  /\ pc[p] = "Use_store"
  /\ middlewares' = [middlewares EXCEPT ![op[p].c] = loc[p].md \o op[p].tw]
  /\ useLog' = [useLog EXCEPT ![op[p].c] = @ \o op[p].tw]
  /\ pc' = [pc EXCEPT ![p] = "idle"]
  /\ loc' = [loc EXCEPT ![p] = NoLoc]
  /\ UNCHANGED <<threads, chords, op, stack, ret, hist, seen>>

\* A FetchThread written with LoadAndDelete in place of Load.
FetchThreadAndDelete(p, c, key) ==
  /\ pc[p] = "idle"
  /\ Begin(p, [NoOp EXCEPT !.name = "FetchThread", !.c = c, !.key = key,
                           !.prev = PrevWrite(p, c, key)],
           IF LoadThread(c, key) = Absent THEN NoRet
           ELSE [NoRet EXCEPT !.thread = LoadThread(c, key), !.ok = TRUE])
  /\ threads' = [threads EXCEPT ![c][key] = Absent]
  /\ seen' = [seen EXCEPT ![p] = {}]
  /\ UNCHANGED <<chords, middlewares, pc, stack, loc, hist, useLog>>

\* Chord.FetchThread: one Load.
FetchThread(p, c, key) ==
  /\ pc[p] = "idle"
  /\ Begin(p, [NoOp EXCEPT !.name = "FetchThread", !.c = c, !.key = key,
                           !.prev = PrevWrite(p, c, key)],
           IF LoadThread(c, key) = Absent THEN NoRet
           ELSE [NoRet EXCEPT !.thread = LoadThread(c, key), !.ok = TRUE])
  /\ seen' = [seen EXCEPT ![p] = {}]
  /\ UNCHANGED <<threads, chords, middlewares, pc, stack, loc, hist, useLog>>

\* Chord.FetchChord: one Load.
FetchChord(p, c, key) ==
  /\ pc[p] = "idle"
  /\ Begin(p, [NoOp EXCEPT !.name = "FetchChord", !.c = c, !.key = key],
           IF LoadChord(c, key) = NoChord THEN NoRet
           ELSE [NoRet EXCEPT !.chord = LoadChord(c, key), !.ok = TRUE])
  /\ seen' = [seen EXCEPT ![p] = {}]
  /\ UNCHANGED <<threads, chords, middlewares, pc, stack, loc, hist, useLog>>

\* copy(md, src) into md = make([]ThreadWrapper, n): the first min(n, len(src))
\* elements are copied, the rest of md stays nil.
CopyInto(n, src) ==
  [i \in 1..n |-> IF i <= Len(src) THEN src[i] ELSE NilWrapper]

\* Chord.FetchMiddlewares, first half: make(len(c.middlewares)).
FetchMiddlewaresLen(p, c) ==
  /\ pc[p] = "idle"
  /\ pc' = [pc EXCEPT ![p] = "FM_copy"]
  /\ loc' = [loc EXCEPT ![p] = [NoLoc EXCEPT !.n = Len(middlewares[c])]]
  /\ Begin(p, [NoOp EXCEPT !.name = "FetchMiddlewares", !.c = c,
                           !.was = middlewares[c]], NoRet)
  /\ seen' = [seen EXCEPT ![p] = {}]
  /\ UNCHANGED <<threads, chords, middlewares, stack, hist, useLog>>

\* A FetchMiddlewares that returns c.middlewares itself: the caller gets the
\* node's slice, on the node's array.
FetchMiddlewaresAlias(p) ==
  /\ pc[p] = "FM_copy"
  /\ ret' = [ret EXCEPT ![p] =
               [NoRet EXCEPT !.md = middlewares[op[p].c],
                             !.array = op[p].c, !.ok = TRUE]]
  /\ pc' = [pc EXCEPT ![p] = "idle"]
  /\ loc' = [loc EXCEPT ![p] = NoLoc]
  /\ UNCHANGED <<threads, chords, middlewares, op, stack, hist, useLog, seen>>

\* Chord.FetchMiddlewares, second half: copy(md, c.middlewares); return md.
FetchMiddlewaresCopy(p) ==
  /\ pc[p] = "FM_copy"
  /\ ret' = [ret EXCEPT ![p] =
               [NoRet EXCEPT !.md = CopyInto(loc[p].n, middlewares[op[p].c]),
                             !.array = "new", !.ok = TRUE]]
  /\ pc' = [pc EXCEPT ![p] = "idle"]
  /\ loc' = [loc EXCEPT ![p] = NoLoc]
  /\ UNCHANGED <<threads, chords, middlewares, op, stack, hist, useLog, seen>>

\* The caller of FetchMiddlewares assigns md[i] = w in the slice it got. The
\* element changes in the array the slice is on: a slice on an array that
\* make allocated in the call is the only one there, a slice on a node's
\* array shares the element with the node's middlewares.
WriteReturned(p, i, w) ==
  /\ pc[p] = "idle" /\ op[p].name = "FetchMiddlewares"
  /\ i \in 1..Len(ret[p].md)
  /\ op' = [op EXCEPT ![p] = [@ EXCEPT !.name = "WriteReturned",
                                       !.was = middlewares[op[p].c]]]
  /\ ret' = [ret EXCEPT ![p] = [@ EXCEPT !.md = [@ EXCEPT ![i] = w]]]
  /\ middlewares' =
       IF ret[p].array \in AllChords /\ i <= Len(middlewares[ret[p].array])
       THEN [middlewares EXCEPT ![ret[p].array] = [@ EXCEPT ![i] = w]]
       ELSE middlewares
  /\ UNCHANGED <<threads, chords, pc, stack, loc, hist, useLog, seen>>

\* A call of the package function WrapThreads: it reads no shared state.
WrapThreadsCall(p, thread, tw) ==
  /\ pc[p] = "idle"
  /\ Begin(p, [NoOp EXCEPT !.name = "WrapThreads", !.thread = thread, !.tw = tw],
           [NoRet EXCEPT !.thread = WrapThreads(thread, tw), !.ok = TRUE])
  /\ seen' = [seen EXCEPT ![p] = {}]
  /\ UNCHANGED <<threads, chords, middlewares, pc, stack, loc, hist, useLog>>

\* ------------------------------------------------------------------ Match
Top(p) == stack[p][Len(stack[p])]

\* The node whose middlewares the frame on top wraps with: the leaf case
\* passes node.FetchMiddlewares(), the recursive case chord.FetchMiddlewares().
MwTarget(p) == IF Len(Top(p).path) = 1 THEN Top(p).node ELSE Top(p).chord

\* Match returns (nil, false) from the frame on top: every caller frame
\* returns (nil, false) in turn, reading nothing.
MatchFail(p) ==
  /\ ret' = [ret EXCEPT ![p] = NoRet]
  /\ stack' = [stack EXCEPT ![p] = <<>>]
  /\ pc' = [pc EXCEPT ![p] = "idle"]

\* The call Match(node, path). An empty path returns (nil, false) at once.
MatchCall(p, node, path) ==
  /\ pc[p] = "idle"
  /\ Begin(p, [NoOp EXCEPT !.name = "Match", !.c = node, !.path = path], NoRet)
  /\ loc' = [loc EXCEPT ![p] = NoLoc]
  /\ seen' = [seen EXCEPT ![p] =
                IF Len(path) = 1 /\ node # NilChord
                THEN {threads[node][path[1]]} ELSE {}]
  /\ IF Len(path) = 0
     THEN UNCHANGED <<pc, stack>>
     ELSE /\ pc' = [pc EXCEPT ![p] = "Match"]
          /\ stack' = [stack EXCEPT ![p] =
                         <<[node |-> node, path |-> path, chord |-> NilChord]>>]
  /\ UNCHANGED <<threads, chords, middlewares, hist, useLog>>

\* A Match whose recursive call passes the whole path on instead of path[1:].
MatchStepWholePath(p) ==
  /\ pc[p] = "Match"
  /\ LET f == Top(p) IN
     IF f.node = NilChord
     THEN /\ pc' = [pc EXCEPT ![p] = "panic"]
          /\ UNCHANGED <<stack, loc, ret>>
     ELSE IF Len(f.path) = 1
     THEN IF LoadThread(f.node, f.path[1]) = Absent
          THEN /\ MatchFail(p)
               /\ loc' = [loc EXCEPT ![p].visited = @ \o <<f.node>>]
          ELSE /\ loc' = [loc EXCEPT ![p].thread = LoadThread(f.node, f.path[1]),
                                     ![p].visited = @ \o <<f.node>>]
               /\ pc' = [pc EXCEPT ![p] = "Match_len"]
               /\ UNCHANGED <<stack, ret>>
     ELSE IF LoadChord(f.node, f.path[1]) = NoChord
          THEN /\ MatchFail(p)
               /\ loc' = [loc EXCEPT ![p].visited = @ \o <<f.node>>]
          ELSE /\ stack' = [stack EXCEPT ![p] =
                    Front(@) \o
                    <<[f EXCEPT !.chord = LoadChord(f.node, f.path[1])],
                      [node |-> LoadChord(f.node, f.path[1]),
                       path |-> f.path, chord |-> NilChord]>>]
               /\ loc' = [loc EXCEPT ![p].visited = @ \o <<f.node>>]
               /\ UNCHANGED <<pc, ret>>
  /\ UNCHANGED <<threads, chords, middlewares, op, hist, useLog, seen>>

\* The lookup of the frame on top: FetchThread for a single key, FetchChord
\* and the recursive call otherwise. A method called on the nil *Chord
\* dereferences it and panics.
MatchStep(p) ==
  /\ pc[p] = "Match"
  /\ LET f == Top(p) IN
     IF f.node = NilChord
     THEN /\ pc' = [pc EXCEPT ![p] = "panic"]
          /\ UNCHANGED <<stack, loc, ret>>
     ELSE IF Len(f.path) = 1
     THEN IF LoadThread(f.node, f.path[1]) = Absent
          THEN /\ MatchFail(p)
               /\ loc' = [loc EXCEPT ![p].visited = @ \o <<f.node>>]
          ELSE /\ loc' = [loc EXCEPT ![p].thread = LoadThread(f.node, f.path[1]),
                                     ![p].visited = @ \o <<f.node>>]
               /\ pc' = [pc EXCEPT ![p] = "Match_len"]
               /\ UNCHANGED <<stack, ret>>
     ELSE IF LoadChord(f.node, f.path[1]) = NoChord
          THEN /\ MatchFail(p)
               /\ loc' = [loc EXCEPT ![p].visited = @ \o <<f.node>>]
          ELSE /\ stack' = [stack EXCEPT ![p] =
                    Front(@) \o
                    <<[f EXCEPT !.chord = LoadChord(f.node, f.path[1])],
                      [node |-> LoadChord(f.node, f.path[1]),
                       path |-> Tail(f.path), chord |-> NilChord]>>]
               /\ loc' = [loc EXCEPT ![p].visited = @ \o <<f.node>>]
               /\ UNCHANGED <<pc, ret>>
  /\ UNCHANGED <<threads, chords, middlewares, op, hist, useLog, seen>>

\* Match looking its thread up a second time before wrapping it, and taking
\* whatever the key holds by then.
MatchLenReload(p) ==
  /\ pc[p] = "Match_len"
  /\ loc' = [loc EXCEPT
       ![p].n = Len(middlewares[MwTarget(p)]),
       ![p].thread =
          IF Len(Top(p).path) # 1 THEN @
          ELSE IF LoadThread(Top(p).node, Top(p).path[1]) = Absent THEN NilThread
          ELSE LoadThread(Top(p).node, Top(p).path[1])]
  /\ pc' = [pc EXCEPT ![p] = "Match_copy"]
  /\ UNCHANGED <<threads, chords, middlewares, op, stack, ret, hist, useLog, seen>>

\* FetchMiddlewares inside Match, first half: make(len(c.middlewares)).
MatchLen(p) ==
  /\ pc[p] = "Match_len"
  /\ loc' = [loc EXCEPT ![p].n = Len(middlewares[MwTarget(p)])]
  /\ pc' = [pc EXCEPT ![p] = "Match_copy"]
  /\ UNCHANGED <<threads, chords, middlewares, op, stack, ret, hist, useLog, seen>>

\* FetchMiddlewares inside Match, second half, then WrapThreads and the
\* return of (thread, true) to the caller frame, which wraps in its turn.
MatchCopy(p) ==
  /\ pc[p] = "Match_copy"
  /\ LET md == CopyInto(loc[p].n, middlewares[MwTarget(p)])
         thread == WrapThreads(loc[p].thread, md)
     IN IF thread = Panicked
        THEN /\ pc' = [pc EXCEPT ![p] = "panic"]
             /\ UNCHANGED <<stack, loc, ret>>
        ELSE IF Len(stack[p]) = 1
        THEN /\ ret' = [ret EXCEPT ![p] = [NoRet EXCEPT !.thread = thread, !.ok = TRUE]]
             /\ stack' = [stack EXCEPT ![p] = <<>>]
             /\ pc' = [pc EXCEPT ![p] = "idle"]
             /\ loc' = [loc EXCEPT ![p].thread = NilThread, ![p].n = 0]
        ELSE /\ stack' = [stack EXCEPT ![p] = Front(@)]
             /\ loc' = [loc EXCEPT ![p].thread = thread, ![p].n = 0]
             /\ pc' = [pc EXCEPT ![p] = "Match_len"]
             /\ UNCHANGED ret
  /\ UNCHANGED <<threads, chords, middlewares, op, hist, useLog, seen>>

\* --------------------------------------------------------- specifications
\* One caller, one node, one key: registration, middleware and composition.
NodeProcs == {"p1"}
NodeChords == {"n0"}
NodeKeys == {"h"}

NextNode ==
  \E p \in NodeProcs :
    \/ \E c \in NodeChords, key \in NodeKeys, thread \in BaseThreads :
         \/ \E tw \in SeqsUpTo(Wrappers, MaxTw) : Register(p, c, key, thread, tw)
         \/ Unregister(p, c, key, thread)
    \/ \E c \in NodeChords, key \in NodeKeys : FetchThread(p, c, key)
    \/ \E c \in NodeChords, tw \in NonEmptySeqsUpTo(Wrappers, MaxTw) : UseLoad(p, c, tw)
    \/ UseStore(p)
    \/ \E c \in NodeChords : FetchMiddlewaresLen(p, c)
    \/ FetchMiddlewaresCopy(p)
    \/ \E thread \in BaseThreads, tw \in SeqsUpTo(Wrappers, MaxTw) :
         WrapThreadsCall(p, thread, tw)
    \/ \E c \in NodeChords, path \in SeqsUpTo(NodeKeys, 1) : MatchCall(p, c, path)
    \/ MatchStep(p)
    \/ MatchLen(p)
    \/ MatchCopy(p)

Spec == Init /\ [][NextNode]_vars

\* One caller on a tree of two nodes: mounting and path resolution.
TreeProcs == {"p1"}
TreeRoot == "n0"
TreeThreads == {<<"H">>}
\* The middleware each node is given: told apart by their order.
TreeUse == {<<"n0", <<"a", "b">>>>, <<"n1", <<"b", "a">>>>}
MountKeys == {"c"}

NextTree ==
  \E p \in TreeProcs :
    \/ \E c \in AllChords, key \in AllKeys, thread \in TreeThreads :
         \/ Register(p, c, key, thread, <<>>)
         \/ Unregister(p, c, key, thread)
    \/ \E c \in AllChords, key \in MountKeys :
         \/ \E child \in AllChords : Mount(p, c, key, child)
         \/ Unmount(p, c, key)
    \/ \E c \in AllChords, key \in AllKeys : FetchChord(p, c, key)
    \/ \E u \in TreeUse : UseLoad(p, u[1], u[2])
    \/ UseStore(p)
    \/ \E path \in SeqsUpTo(AllKeys, MaxPath) : MatchCall(p, TreeRoot, path)
    \/ MatchStep(p)
    \/ MatchLen(p)
    \/ MatchCopy(p)

SpecTree == Init /\ [][NextTree]_vars

\* Two callers on one key of one node: Register, Unregister and lookups.
ConcProcs == {"p1", "p2"}
ConcChord == "n0"
ConcKey == "h"
ConcTw == {<<>>, <<"a", "b">>}

NextConc ==
  \E p \in ConcProcs :
    \/ \E thread \in BaseThreads :
         \/ \E tw \in ConcTw : Register(p, ConcChord, ConcKey, thread, tw)
         \/ Unregister(p, ConcChord, ConcKey, thread)
    \/ FetchThread(p, ConcChord, ConcKey)
    \/ MatchCall(p, ConcChord, <<ConcKey>>)
    \/ MatchStep(p)
    \/ MatchLen(p)
    \/ MatchCopy(p)

SpecConc == Init /\ [][NextConc]_vars

\* Two callers on the middleware of one node: Use and snapshots.
NextUse ==
  \E p \in ConcProcs :
    \/ \E tw \in NonEmptySeqsUpTo(Wrappers, 1) : UseLoad(p, ConcChord, tw)
    \/ UseStore(p)
    \/ FetchMiddlewaresLen(p, ConcChord)
    \/ FetchMiddlewaresCopy(p)
    \/ Register(p, ConcChord, ConcKey, <<"H">>, <<>>)
    \/ MatchCall(p, ConcChord, <<ConcKey>>)
    \/ MatchStep(p)
    \/ MatchLen(p)
    \/ MatchCopy(p)

SpecUse == Init /\ [][NextUse]_vars

\* A reader and a writer: one caller resolves handlers from the root and
\* keeps what it got, the other changes the root and the child.
HoldReader == "p1"
HoldWriter == "p2"
HoldRoot == "n0"
HoldChild == "n1"
HoldPaths == {<<"h">>, <<"c", "h">>, <<"h", "h">>}

NextHold ==
  \/ \E key \in AllKeys :
       \/ Mount(HoldWriter, HoldRoot, key, HoldChild)
       \/ Unmount(HoldWriter, HoldRoot, key)
  \/ \E c \in AllChords :
       \/ \E thread \in BaseThreads : Register(HoldWriter, c, "h", thread, <<>>)
       \/ Unregister(HoldWriter, c, "h", <<"H">>)
  \/ UseLoad(HoldWriter, HoldChild, <<"a", "b">>)
  \/ UseStore(HoldWriter)
  \/ \E path \in HoldPaths : MatchCall(HoldReader, HoldRoot, path)
  \/ MatchStep(HoldReader)
  \/ MatchLen(HoldReader)
  \/ MatchCopy(HoldReader)

SpecHold == Init /\ [][NextHold]_vars

\* A reader and a writer on the middleware of one node: the writer appends
\* one wrapper at a time, the reader takes snapshots and writes into them.
NextSnap ==
  \/ \E tw \in NonEmptySeqsUpTo(Wrappers, 1) : UseLoad(HoldWriter, HoldRoot, tw)
  \/ UseStore(HoldWriter)
  \/ FetchMiddlewaresLen(HoldReader, HoldRoot)
  \/ FetchMiddlewaresCopy(HoldReader)
  \/ \E i \in 1..MaxMw, w \in Wrappers : WriteReturned(HoldReader, i, w)
  \/ Register(HoldWriter, HoldRoot, "h", <<"H">>, <<>>)
  \/ MatchCall(HoldReader, HoldRoot, <<"h">>)
  \/ MatchStep(HoldReader)
  \/ MatchLen(HoldReader)
  \/ MatchCopy(HoldReader)

SpecSnap == Init /\ [][NextSnap]_vars

\* One caller that builds a root with a child and calls every reading
\* operation on what it built.
NextRead ==
  \/ \E c \in AllChords : Register(HoldReader, c, "h", <<"H">>, <<>>)
  \/ Mount(HoldReader, HoldRoot, "c", HoldChild)
  \/ UseLoad(HoldReader, HoldChild, <<"a", "b">>)
  \/ UseStore(HoldReader)
  \/ \E c \in AllChords :
       \/ \E key \in AllKeys :
            \/ FetchThread(HoldReader, c, key)
            \/ FetchChord(HoldReader, c, key)
       \/ FetchMiddlewaresLen(HoldReader, c)
  \/ FetchMiddlewaresCopy(HoldReader)
  \/ WrapThreadsCall(HoldReader, <<"H">>, <<"a", "b">>)
  \/ \E path \in HoldPaths : MatchCall(HoldReader, HoldRoot, path)
  \/ MatchStep(HoldReader)
  \/ MatchLen(HoldReader)
  \/ MatchCopy(HoldReader)

SpecRead == Init /\ [][NextRead]_vars

\* One caller whose arguments include the nil *Chord and the nil Thread.
NilThreads == {<<"H">>, NilThread}
NilTw == {<<>>, <<"a", "b">>}

NextNil ==
  \/ \E child \in {NilChord, HoldChild} : Mount(HoldReader, HoldRoot, "c", child)
  \/ Unmount(HoldReader, HoldRoot, "c")
  \/ \E c \in AllChords, thread \in NilThreads :
       \/ Register(HoldReader, c, "h", thread, <<>>)
       \/ Unregister(HoldReader, c, "h", thread)
  \/ UseLoad(HoldReader, HoldChild, <<"a", "b">>)
  \/ UseStore(HoldReader)
  \/ \E thread \in NilThreads, tw \in NilTw : WrapThreadsCall(HoldReader, thread, tw)
  \/ \E path \in HoldPaths : MatchCall(HoldReader, HoldRoot, path)
  \/ MatchStep(HoldReader)
  \/ MatchLen(HoldReader)
  \/ MatchCopy(HoldReader)

SpecNil == Init /\ [][NextNil]_vars

\* A writer and a reader that take turns: the writer mounts the child under
\* either key of the root and changes the child, the reader resolves through
\* either key once the writer's call has returned.
SharePaths == {<<"c", "h">>, <<"h", "h">>}

\* The other caller is between calls.
WriterIdle == pc[HoldWriter] = "idle"
ReaderIdle == pc[HoldReader] = "idle"

NextShare ==
  \/ \E key \in AllKeys :
       \/ ReaderIdle /\ Mount(HoldWriter, HoldRoot, key, HoldChild)
       \/ ReaderIdle /\ Unmount(HoldWriter, HoldRoot, key)
  \/ \E thread \in BaseThreads :
       ReaderIdle /\ Register(HoldWriter, HoldChild, "h", thread, <<>>)
  \/ ReaderIdle /\ Unregister(HoldWriter, HoldChild, "h", <<"H">>)
  \/ ReaderIdle /\ UseLoad(HoldWriter, HoldChild, <<"a", "b">>)
  \/ ReaderIdle /\ UseStore(HoldWriter)
  \/ \E path \in SharePaths :
       WriterIdle /\ MatchCall(HoldReader, HoldRoot, path)
  \/ WriterIdle /\ MatchStep(HoldReader)
  \/ WriterIdle /\ MatchLen(HoldReader)
  \/ WriterIdle /\ MatchCopy(HoldReader)

SpecShare == Init /\ [][NextShare]_vars

\* One caller, every mutation on either node under either key, and the
\* child lookup.
NextFrame ==
  \/ \E c \in AllChords :
       \/ Register(HoldReader, c, "h", <<"H">>, <<>>)
       \/ Unregister(HoldReader, c, "h", <<"H">>)
       \/ \E key \in AllKeys :
            \/ \E child \in AllChords : Mount(HoldReader, c, key, child)
            \/ Unmount(HoldReader, c, key)
            \/ FetchChord(HoldReader, c, key)
  \/ \E u \in TreeUse : UseLoad(HoldReader, u[1], u[2])
  \/ UseStore(HoldReader)

SpecFrame == Init /\ [][NextFrame]_vars

\* ------------------------------------------------------------ the claims
\* What the documentation promises of composition: every wrapper applied,
\* the first one outermost.
Compose(thread, tw) == tw \o thread

PreLog(tw) == [i \in 1..Len(tw) |-> Pre(tw[i])]
PostLog(tw) == [i \in 1..Len(tw) |-> Post(tw[Len(tw) + 1 - i])]

Returned(p, name) == pc[p] = "idle" /\ op[p].name = name

\* C1: Match(node, [k]) on a node with middleware [W1..Wn] and handler H under
\* k returns a handler that runs W1 pre, ..., Wn pre, H, Wn post, ..., W1 post.
C1_MatchRunsNodeMiddleware ==
  \A p \in AllProcs :
    (Returned(p, "Match") /\ Len(op[p].path) = 1 /\ ret[p].ok) =>
      Invoke(ret[p].thread) =
        PreLog(middlewares[op[p].c])
          \o Invoke(threads[op[p].c][op[p].path[1]])
          \o PostLog(middlewares[op[p].c])

\* C3: WrapThreads(base, w0, ..., w(n-1)) with n >= 1 is w0(w1(...(base))):
\* every wrapper applied once, w0 outermost.
C3_WrapThreadsAppliesAll ==
  \A p \in AllProcs :
    (Returned(p, "WrapThreads") /\ Len(op[p].tw) >= 1) =>
      ret[p].thread = Compose(op[p].thread, op[p].tw)

\* What the last Register on a key left there: its thread as Register
\* composed it; nothing when an Unregister came last or no call was made.
LastBinding(c, key) ==
  IF hist[c][key] = <<>> THEN Absent
  ELSE WrapThreads(hist[c][key][1], hist[c][key][2])

\* C9: FetchThread(K) reflects only the most recent Register or Unregister on
\* K: found with the last Register's handler, not-found after an Unregister
\* or when K was never registered.
C9_LastWriteWins ==
  /\ \A c \in AllChords, key \in AllKeys : threads[c][key] = LastBinding(c, key)
  /\ \A p \in AllProcs :
       Returned(p, "FetchThread") =>
         /\ ret[p].ok = (hist[op[p].c][op[p].key] # <<>>)
         /\ ret[p].ok => /\ ret[p].thread = LastBinding(op[p].c, op[p].key)
                         /\ Last(ret[p].thread) = hist[op[p].c][op[p].key][1][1]
         /\ ~ret[p].ok => ret[p].thread = NilThread

\* C9's case: B was registered over A, and FetchThread then returned B.
C9_Witness ==
  \E p \in AllProcs :
    /\ Returned(p, "FetchThread")
    /\ op[p].prev = <<"Register", <<"G">>, <<"H">>>>
    /\ ret[p].ok /\ ret[p].thread = <<"G">>

\* C10: Unregister(K, x) removes K's entry whatever x is: right after it the
\* key is absent, and a FetchThread(K) that follows reports not-found.
C10_UnregisterIgnoresThread ==
  \A p \in AllProcs :
    /\ Returned(p, "Unregister") => LoadThread(op[p].c, op[p].key) = Absent
    /\ (Returned(p, "FetchThread") /\ op[p].prev # <<>>
          /\ op[p].prev[1] = "Unregister") => ~ret[p].ok

\* C10's case: K held B, Unregister(K, A) with A # B, FetchThread(K) not-found.
C10_Witness ==
  \E p \in AllProcs :
    /\ Returned(p, "FetchThread")
    /\ op[p].prev = <<"Unregister", <<"G">>, <<"H">>>>
    /\ ~ret[p].ok

\* The handler the documentation promises for a path: the stored thread
\* composed with the middleware of every node traversed, the deepest node's
\* closest to it and the root's outermost.
RECURSIVE Promised(_, _)
Promised(node, path) ==
  IF Len(path) = 1 THEN Compose(threads[node][path[1]], middlewares[node])
  ELSE Compose(Promised(chords[node][path[1]], Tail(path)), middlewares[node])

\* C2: for a path of two or more keys that resolves, Match returns the handler
\* wrapped with the middleware of every traversed node, each once, the
\* deepest node's closest to the handler and the root's outermost. (Stated
\* for the paths that traverse distinct nodes.)
C2_MatchAccumulatesMiddleware ==
  \A p \in AllProcs :
    (Returned(p, "Match") /\ Len(op[p].path) >= 2 /\ ret[p].ok
       /\ Cardinality({loc[p].visited[i] : i \in 1..Len(loc[p].visited)})
            = Len(loc[p].visited)) =>
      /\ ret[p].thread = Promised(op[p].c, op[p].path)
      /\ Invoke(ret[p].thread) = Invoke(Promised(op[p].c, op[p].path))

\* A path resolves: every key but the last is a mounted child of the node
\* reached so far, the last one a handler key of the last node.
RECURSIVE Resolves(_, _)
Resolves(node, path) ==
  /\ Len(path) >= 1
  /\ IF Len(path) = 1 THEN threads[node][path[1]] # Absent
     ELSE /\ chords[node][path[1]] # NoChord
          /\ Resolves(chords[node][path[1]], Tail(path))

\* The nodes a resolution may read: those reached, up to the first missing key.
RECURSIVE Walk(_, _)
Walk(node, path) ==
  IF Len(path) = 0 THEN <<>>
  ELSE IF Len(path) = 1 \/ chords[node][path[1]] = NoChord THEN <<node>>
  ELSE <<node>> \o Walk(chords[node][path[1]], Tail(path))

\* C4: Match returns found exactly when the path resolves; otherwise it
\* returns (nil, false), having read no node beyond the first missing key.
C4_FoundIffPathResolves ==
  \A p \in AllProcs :
    Returned(p, "Match") =>
      /\ ret[p].ok = Resolves(op[p].c, op[p].path)
      /\ ~ret[p].ok => ret[p].thread = NilThread
      /\ loc[p].visited = Walk(op[p].c, op[p].path)

\* C4's case: the first key is no child of the root, although the root and
\* the other node hold handlers; Match read the root only and failed.
C4_Witness ==
  \E p \in AllProcs :
    /\ Returned(p, "Match") /\ op[p].path = <<"c", "h">> /\ ~ret[p].ok
    /\ chords[op[p].c]["c"] = NoChord
    /\ threads[op[p].c]["h"] # Absent /\ threads["n1"]["h"] # Absent
    /\ loc[p].visited = <<op[p].c>>

\* C5: handler keys and child keys are independent namespaces. A write to
\* one map leaves the other as it was, and Match resolves a non-final key
\* through the children map only: with no child under it, it fails, whatever
\* handler the key is bound to.
C5_SeparateNamespaces ==
  /\ [](\A p \in AllProcs :
          (Returned(p, "Match") /\ Len(op[p].path) >= 2
             /\ chords[op[p].c][op[p].path[1]] = NoChord) => ~ret[p].ok)
  /\ [][/\ threads' # threads => chords' = chords
        /\ chords' # chords => threads' = threads]_vars

\* C5's case: "c" is a handler and no child at the root, Match(root, [c, h])
\* failed; the other node holds a handler and a child under the same key.
C5_Witness ==
  \E p \in AllProcs :
    /\ Returned(p, "Match") /\ op[p].path = <<"c", "h">> /\ ~ret[p].ok
    /\ threads[op[p].c]["c"] # Absent /\ chords[op[p].c]["c"] = NoChord
    /\ threads["n1"]["c"] # Absent /\ chords["n1"]["c"] # NoChord
    /\ threads["n1"]["h"] # Absent

IsSuffix(s, t) == Len(s) <= Len(t) /\ SubSeq(t, Len(t) - Len(s) + 1, Len(t)) = s
IsPrefix(s, t) == Len(s) <= Len(t) /\ SubSeq(t, 1, Len(s)) = s
Count(w, s) == Cardinality({i \in 1..Len(s) : s[i] = w})

\* C6: with Register, Unregister and Match interleaved on one key, no call
\* crashes, the map always holds what the last completed write left, a Match
\* that finds a handler returns one built on a value the key held between its
\* call and its return, and a Match during which the key held one registered
\* value throughout finds that value.
C6_MatchSeesStoredThread ==
  /\ \A p \in AllProcs : pc[p] # "panic"
  /\ \A c \in AllChords, key \in AllKeys : threads[c][key] = LastBinding(c, key)
  /\ \A p \in AllProcs :
       (Returned(p, "Match") /\ Len(op[p].path) = 1) =>
         /\ ret[p].ok =>
              \E v \in seen[p] \ {Absent} : IsSuffix(v, ret[p].thread)
         /\ (\E v \in seen[p] : v # Absent /\ seen[p] = {v}) => ret[p].ok

\* C6's case: a Match returned a handler while the other caller replaced and
\* removed the key's thread during the call.
C6_Witness ==
  \E p \in AllProcs :
    /\ Returned(p, "Match") /\ ret[p].ok /\ ret[p].thread = <<"H">>
    /\ seen[p] = {<<"H">>, <<"G">>, Absent}
    /\ threads[op[p].c][op[p].path[1]] = Absent

\* C7: once no Use call is in progress the node's middleware holds every
\* wrapper passed to every Use call, and every snapshot FetchMiddlewares
\* returns is a prefix of the sequence of appends.
C7_NoAppendLost ==
  /\ (\A p \in AllProcs : pc[p] # "Use_store") =>
       \A c \in AllChords, w \in Wrappers :
         Count(w, middlewares[c]) = Count(w, useLog[c])
  /\ \A p \in AllProcs :
       Returned(p, "FetchMiddlewares") => IsPrefix(ret[p].md, useLog[op[p].c])

\* C8: what Register stores under a key is the handler composed with all of
\* the wrappers it was passed, and what a reader finds under a key is such a
\* fully composed handler: never one with only some of the wrappers.
C8_StoredFullyComposed ==
  /\ \A c \in AllChords, key \in AllKeys :
       hist[c][key] # <<>> =>
         threads[c][key] = Compose(hist[c][key][1], hist[c][key][2])
  /\ \A p \in AllProcs :
       (Returned(p, "FetchThread") /\ ret[p].ok) =>
         \E thread \in BaseThreads, tw \in ConcTw :
           ret[p].thread = Compose(thread, tw)

\* The step is one of caller p's: a call, a return or a step in between.
Moved(p) ==
  \/ pc'[p] # pc[p] \/ op'[p] # op[p] \/ ret'[p] # ret[p]
  \/ loc'[p] # loc[p] \/ stack'[p] # stack[p]

Mutations == {"Register", "Unregister", "Mount", "Unmount", "Use"}

C12_SnapshotIsCopy ==
  /\ [](\A p \in AllProcs :
          Returned(p, "FetchMiddlewares") => ret[p].md = op[p].was)
  /\ [][\A p \in AllProcs :
          (Moved(p) /\ op'[p].name = "WriteReturned") =>
            /\ middlewares' = middlewares
            /\ threads' = threads /\ chords' = chords]_vars

\* The reader changed the first element of a snapshot of two wrappers, the
\* writer appended a third wrapper since, and the node still holds the
\* appended wrappers in order.
C12_Witness ==
  /\ Returned(HoldReader, "WriteReturned")
  /\ op[HoldReader].was = <<"a", "b">>
  /\ ret[HoldReader].md = <<"b", "b">>
  /\ middlewares[HoldRoot] = <<"a", "b", "a">>

Reads == {"Match", "WrapThreads", "FetchThread", "FetchChord",
          "FetchMiddlewares"}

\* C13: Match, WrapThreads, FetchThread, FetchChord and FetchMiddlewares are
\* read-only: no step of any of them, from the call to the return, changes
\* the handlers, the children or the middleware of any node.
C13_ReadsChangeNothing ==
  [][\A p \in AllProcs :
       (Moved(p) /\ op'[p].name \in Reads) =>
         UNCHANGED <<threads, chords, middlewares>>]_vars

\* Match found a handler through the child, and the handler, the child and
\* the child's middleware it read are all still in place.
C13_Witness ==
  /\ Returned(HoldReader, "Match") /\ ret[HoldReader].ok
  /\ op[HoldReader].path = <<"c", "h">>
  /\ chords[HoldRoot]["c"] = HoldChild
  /\ threads[HoldChild]["h"] = <<"H">>
  /\ middlewares[HoldChild] = <<"a", "b">>

\* The work a Match call has left: the keys still to look up on the way
\* down, then a length read and a copy for each frame on the way back.
Rank(p) ==
  IF pc[p] = "Match" THEN 2 * Len(op[p].path) + Len(Top(p).path)
  ELSE IF pc[p] = "Match_len" THEN 2 * Len(stack[p])
  ELSE IF pc[p] = "Match_copy" THEN 2 * Len(stack[p]) - 1
  ELSE 0

\* A node read by Match more than once: the path went round a cycle.
WentRound(p) ==
  \E i \in 1..Len(loc[p].visited), j \in 1..Len(loc[p].visited) :
    i < j /\ loc[p].visited[i] = loc[p].visited[j]

\* C14 as stated: a Match whose path traverses a cycle of mounts does not
\* terminate, so no Match that went round a cycle ever returns.
C14_CycleNeverReturns ==
  \A p \in AllProcs : Returned(p, "Match") => ~WentRound(p)

\* C14, amended: Match terminates on every tree, cyclic or not. It nests at
\* most one call per key of the path, it can always take its next step, and
\* every step leaves it less work than before.
C14_MatchTerminates ==
  /\ [](\A p \in AllProcs :
          InMatch(p) =>
            /\ Len(stack[p]) <= Len(op[p].path)
            /\ ENABLED (MatchStep(p) \/ MatchLen(p) \/ MatchCopy(p)))
  /\ [][\A p \in AllProcs :
          (InMatch(p) /\ Moved(p)) => Rank(p)' < Rank(p)]_vars

\* The root is mounted under itself and Match went round it twice before
\* it returned the root's handler.
C14_Witness ==
  \E p \in AllProcs :
    /\ Returned(p, "Match") /\ ret[p].ok
    /\ op[p].path = <<"c", "c", "h">>
    /\ chords[TreeRoot]["c"] = TreeRoot
    /\ loc[p].visited = <<TreeRoot, TreeRoot, TreeRoot>>

\* C15: whatever the arguments of the calls that built the tree, Match ends
\* in found with a handler or in not found: no call crashes, and a found
\* outcome carries a handler.
C15_MatchNeverCrashes ==
  \A p \in AllProcs :
    /\ pc[p] # "panic"
    /\ (Returned(p, "Match") /\ ret[p].ok) => ret[p].thread # NilThread

\* C16: WrapThreads with no wrappers returns the base itself, the nil base
\* included, and so a Match on a path whose nodes all have empty middleware
\* returns exactly the handler stored under the last key.
C16_EmptyWrapIsIdentity ==
  \A p \in AllProcs :
    /\ (Returned(p, "WrapThreads") /\ op[p].tw = <<>>) =>
         ret[p].thread = op[p].thread
    /\ (/\ Returned(p, "Match") /\ ret[p].ok
        /\ \A i \in 1..Len(loc[p].visited) :
             middlewares[loc[p].visited[i]] = <<>>) =>
         ret[p].thread = threads[Last(loc[p].visited)][Last(op[p].path)]

\* Neither the root nor the child has middleware, the child holds the nil
\* handler, and Match through the child returned found with that nil.
C16_Witness ==
  \E p \in AllProcs :
    /\ Returned(p, "Match") /\ ret[p].ok /\ op[p].path = <<"c", "h">>
    /\ loc[p].visited = <<HoldRoot, HoldChild>>
    /\ middlewares[HoldRoot] = <<>> /\ middlewares[HoldChild] = <<>>
    /\ threads[HoldChild]["h"] = NilThread
    /\ ret[p].thread = NilThread

\* The wrappers stored at a node so far.
StoredAt(c) == {useLog[c][i] : i \in 1..Len(useLog[c])}

\* C17: while other callers change the nodes on its path, every read of a
\* Match call returns what the node held at some instant of the call, and
\* the result never contains a wrapper or a handler that was not stored at
\* the node it was read from. So Match applies stored wrappers only (the
\* nil wrapper was never stored, and applying it crashes the call), and
\* the base of what it returns is a handler the key held during the call.
C17_ReadsWereStored ==
  \A p \in AllProcs :
    /\ pc[p] # "panic"
    /\ (Returned(p, "Match") /\ ret[p].ok) =>
         /\ \A i \in 1..(Len(ret[p].thread) - 1) :
              ret[p].thread[i] \in StoredAt(op[p].c)
         /\ <<Last(ret[p].thread)>> \in seen[p]

\* Match on the tree as it is, in one piece: (nil, false) for an empty path
\* or a missing key, else the thread of the last key wrapped at each level
\* with the middlewares the code passes there.
Found(thread) == [ok |-> TRUE, thread |-> thread]
NotFound == [ok |-> FALSE, thread |-> NilThread]

RECURSIVE MatchOf(_, _)
MatchOf(node, path) ==
  IF Len(path) = 0 THEN NotFound
  ELSE IF Len(path) = 1
  THEN IF LoadThread(node, path[1]) = Absent THEN NotFound
       ELSE Found(WrapThreads(LoadThread(node, path[1]), middlewares[node]))
  ELSE IF LoadChord(node, path[1]) = NoChord THEN NotFound
  ELSE LET chord == LoadChord(node, path[1])
           sub == MatchOf(chord, Tail(path))
       IN IF sub.ok THEN Found(WrapThreads(sub.thread, middlewares[chord]))
          ELSE NotFound

\* What resolving the rest of a path through a mounted child gives, from
\* the child as it is now: no parent and no key takes part in it.
Through(child, rest) ==
  IF MatchOf(child, rest).ok
  THEN Found(WrapThreads(MatchOf(child, rest).thread, middlewares[child]))
  ELSE NotFound

\* C18: Mount stores the node it was given, not a copy. The key holds that
\* very node, and a Match that goes through a key of a parent returns what
\* the mounted node resolves to as it is at that time, with every change
\* made to it since it was mounted; so the same node mounted under two keys
\* resolves identically through both.
C18_MountStoresReference ==
  /\ [](\A p \in AllProcs :
          Returned(p, "Mount") => chords[op[p].c][op[p].key] = op[p].child)
  /\ [][\A p \in AllProcs :
          (/\ InMatch(p) /\ pc'[p] = "idle" /\ Len(op[p].path) >= 2
           /\ chords[op[p].c][op[p].path[1]] # NoChord) =>
            [ok |-> ret'[p].ok, thread |-> ret'[p].thread] =
              Through(chords[op[p].c][op[p].path[1]], Tail(op[p].path))]_vars

\* The child was mounted under both keys of the root and only then given
\* its middleware (the writer's last call); a Match through the second key
\* returned the child's handler with that middleware.
C18_Witness ==
  /\ chords[HoldRoot]["c"] = HoldChild /\ chords[HoldRoot]["h"] = HoldChild
  /\ Returned(HoldWriter, "Use")
  /\ Returned(HoldReader, "Match") /\ op[HoldReader].path = <<"h", "h">>
  /\ ret[HoldReader].ok /\ ret[HoldReader].thread = <<"b", "b", "G">>

\* Two maps of every node agree everywhere but at key k of node c.
SameBut(f, g, c, k) ==
  \A n \in AllChords, key \in AllKeys :
    (n # c \/ key # k) => g[n][key] = f[n][key]

\* C19: each mutation changes its own target on its own node only. Register
\* and Unregister leave every other handler, every child and every
\* middleware as they were; Mount and Unmount leave every handler, every
\* other child and every middleware as they were, Mount leaving the child
\* it was given under the key, whatever was there, and Unmount leaving the
\* key without a child, so that FetchChord reports it not found; Use changes
\* the middleware of its node only.
C19_MutationsTouchOwnTarget ==
  [][\A p \in AllProcs :
       Moved(p) =>
         /\ op'[p].name \in {"Register", "Unregister"} =>
              /\ SameBut(threads, threads', op'[p].c, op'[p].key)
              /\ chords' = chords /\ middlewares' = middlewares
         /\ op'[p].name \in {"Mount", "Unmount"} =>
              /\ SameBut(chords, chords', op'[p].c, op'[p].key)
              /\ threads' = threads /\ middlewares' = middlewares
         /\ op'[p].name = "Mount" =>
              chords'[op'[p].c][op'[p].key] = op'[p].child
         /\ op'[p].name = "Unmount" =>
              chords'[op'[p].c][op'[p].key] = NoChord
         /\ op'[p].name = "Use" =>
              /\ threads' = threads /\ chords' = chords
              /\ \A n \in AllChords \ {op'[p].c} :
                   middlewares'[n] = middlewares[n]
         /\ op'[p].name = "FetchChord" =>
              ret'[p].ok = (chords[op'[p].c][op'[p].key] # NoChord)]_vars

\* The root's child under c was unmounted: the key holds no child, while
\* the root's handler, the root's child under the other key, the other
\* node's child under the same key and the middleware of both nodes are in
\* place.
C19_Witness ==
  \E p \in AllProcs :
    /\ Returned(p, "Unmount") /\ op[p].c = HoldRoot /\ op[p].key = "c"
    /\ chords[HoldRoot]["c"] = NoChord /\ chords[HoldRoot]["h"] = HoldChild
    /\ threads[HoldRoot]["h"] = <<"H">>
    /\ chords[HoldChild]["c"] = HoldRoot
    /\ middlewares[HoldRoot] = <<"a", "b">>
    /\ middlewares[HoldChild] = <<"b", "a">>

\* C20: with one caller at a time the middleware of a node is append-only.
\* It is the concatenation, in call order and in argument order, of the
\* arguments of the Use calls made on the node, so that only the
\* concatenation matters and not how it was split over calls; each Use
\* appends its arguments to what the node held; no step of any operation
\* removes or reorders a wrapper, and a snapshot is a prefix of what the
\* node holds from then on, hence of every later snapshot.
C20_MiddlewareAppendOnly ==
  /\ [](\A c \in AllChords : middlewares[c] = useLog[c])
  /\ [](\A p \in AllProcs :
          Returned(p, "FetchMiddlewares") =>
            IsPrefix(ret[p].md, middlewares[op[p].c]))
  /\ [][/\ \A c \in AllChords : IsPrefix(middlewares[c], middlewares'[c])
        /\ \A p \in AllProcs :
             (pc[p] = "Use_store" /\ pc'[p] = "idle") =>
               middlewares'[op[p].c] = middlewares[op[p].c] \o op[p].tw]_vars

\* Use(a, b) and then Use(a) were called on the node, which holds a, b, a.
C20_Witness ==
  \E p \in AllProcs :
    /\ Returned(p, "Use") /\ op[p].tw = <<"a">>
    /\ useLog[op[p].c] = <<"a", "b", "a">>
    /\ middlewares[op[p].c] = <<"a", "b", "a">>

====
